---- MODULE Spec2Model ----
(***************************************************************************)
(* Model of hal_effect: BinaryReader and EffectScriptParser                *)
(* (src/src/hal_effect/parser.py) over the data classes of                 *)
(* src/src/hal_effect/types.py.                                            *)
(*                                                                         *)
(* A byte buffer is a sequence of naturals below 256; Python's 0-based     *)
(* data[k] is data[k + 1] here.  A read returns a record                   *)
(* [ok, val, off]: ok = FALSE stands for the exception the read raises     *)
(* (IndexError for data[offset], struct.error for a short slice), and off  *)
(* is the reader offset after the read.  Python's None is the empty tuple  *)
(* and a present optional value v is the one-element tuple <<v>>.          *)
(***************************************************************************)
EXTENDS Integers, Sequences, FiniteSets, TLC

VARIABLES
    data,        \* BinaryReader.data
    offset,      \* BinaryReader.offset
    pc,          \* position of the running call
    instr,       \* what the last _parse_instruction call returned or raised
    opbyte,      \* the opcode byte that call read (-1: none read)
    start,       \* the reader offset when that call began
    varlen,      \* what the last direct read_var_length_u16 call returned
    count,       \* _parse_particle_script_desc: count
    scripts,     \* _parse_particle_script_desc: scripts
    idx,         \* index of the pointer loop / the script loop (0-based)
    next_ptr,    \* _parse_effect_script: next_ptr
    old_offset,  \* _parse_particle_script_desc: old_offset
    header,      \* _parse_effect_script: the header fields read
    bytecode,    \* _parse_effect_script: bytecode
    stop,        \* which break ended the last instruction loop
    result       \* what parse returned

vars == <<data, offset, pc, instr, opbyte, start, varlen, count, scripts, idx,
          next_ptr, old_offset, header, bytecode, stop, result>>

(***************************************************************************)
(* Bounds of the model.                                                    *)
(***************************************************************************)
MaxInstrLen == 13      \* longest buffer handed to a single-instruction call
MaxPad == 1            \* bytes in front of the instruction in such a buffer
MaxCount == 3          \* largest record count of a modelled table

None == << >>
Some(v) == << v >>

(***************************************************************************)
(* Python's integer operators on naturals.                                 *)
(***************************************************************************)
RECURSIVE BitAnd(_, _)
BitAnd(x, y) ==
    IF x = 0 \/ y = 0 THEN 0
    ELSE (x % 2) * (y % 2) + 2 * BitAnd(x \div 2, y \div 2)

RECURSIVE BitOr(_, _)
BitOr(x, y) ==
    IF x = 0 THEN y
    ELSE IF y = 0 THEN x
    ELSE (IF x % 2 = 1 \/ y % 2 = 1 THEN 1 ELSE 0) + 2 * BitOr(x \div 2, y \div 2)

RECURSIVE ShiftL(_, _)
ShiftL(x, n) == IF n = 0 THEN x ELSE ShiftL(2 * x, n - 1)

(***************************************************************************)
(* struct.unpack on a full slice.  A big-endian float is kept as the       *)
(* fields of its IEEE-754 single precision encoding.                       *)
(***************************************************************************)
UnpackH(b) == b[1] * 256 + b[2]

\* ">I"; the buffers of the model keep the top bit of every u32 clear
UnpackI(b) == ((b[1] * 256 + b[2]) * 256 + b[3]) * 256 + b[4]

\* ">i": two's complement
UnpackSignedI(b) ==
    (((IF b[1] >= 128 THEN b[1] - 256 ELSE b[1]) * 256 + b[2]) * 256 + b[3]) * 256 + b[4]

UnpackF(b) ==
    [sign |-> b[1] \div 128,
     exponent |-> (b[1] % 128) * 2 + b[2] \div 128,
     mantissa |-> ((b[2] % 128) * 256 + b[3]) * 256 + b[4]]

\* data[o : o + n]: clipped to the buffer, never an error
Slice(d, o, n) ==
    LET lo == IF o < Len(d) THEN o ELSE Len(d)
        hi == IF o + n < Len(d) THEN o + n ELSE Len(d)
    IN  [k \in 1..(hi - lo) |-> d[lo + k]]

(***************************************************************************)
(* BinaryReader                                                            *)
(***************************************************************************)
Failed(exc, o) == [ok |-> FALSE, val |-> exc, off |-> o]

\* an optional read that the opcode's presence bit leaves out
Skipped(o) == [ok |-> TRUE, val |-> None, off |-> o]

\* read_float moving the offset before the slice is unpacked
read_float_advancing(d, o) ==
    IF Len(Slice(d, o, 4)) = 4
    THEN [ok |-> TRUE, val |-> UnpackF(Slice(d, o, 4)), off |-> o + 4]
    ELSE Failed("struct.error", o + 4)

read_float(d, o) ==
    IF Len(Slice(d, o, 4)) = 4
    THEN [ok |-> TRUE, val |-> UnpackF(Slice(d, o, 4)), off |-> o + 4]
    ELSE Failed("struct.error", o)

read_u16(d, o) ==
    IF Len(Slice(d, o, 2)) = 2
    THEN [ok |-> TRUE, val |-> UnpackH(Slice(d, o, 2)), off |-> o + 2]
    ELSE Failed("struct.error", o)

read_u32(d, o) ==
    IF Len(Slice(d, o, 4)) = 4
    THEN [ok |-> TRUE, val |-> UnpackI(Slice(d, o, 4)), off |-> o + 4]
    ELSE Failed("struct.error", o)

read_s32(d, o) ==
    IF Len(Slice(d, o, 4)) = 4
    THEN [ok |-> TRUE, val |-> UnpackSignedI(Slice(d, o, 4)), off |-> o + 4]
    ELSE Failed("struct.error", o)

read_u8(d, o) ==
    IF o < Len(d)
    THEN [ok |-> TRUE, val |-> d[o + 1], off |-> o + 1]
    ELSE Failed("IndexError", o)

read_vec3f(d, o) ==
    LET x == read_float(d, o)
        y == read_float(d, x.off)
        z == read_float(d, y.off)
    IN  IF ~x.ok THEN x
        ELSE IF ~y.ok THEN y
        ELSE IF ~z.ok THEN z
        ELSE [ok |-> TRUE, val |-> [x |-> x.val, y |-> y.val, z |-> z.val], off |-> z.off]

\* read_var_length_u16 without the offset by one
read_var_length_u16_raw(d, o) ==
    IF o >= Len(d) THEN [ok |-> TRUE, val |-> 0, off |-> o]
    ELSE LET first == read_u8(d, o)
         IN  IF BitAnd(first.val, 128) # 0
             THEN IF first.off >= Len(d)
                  THEN [ok |-> TRUE, val |-> 0, off |-> first.off]
                  ELSE LET second == read_u8(d, first.off)
                       IN  [ok |-> TRUE,
                            val |-> ShiftL(BitAnd(first.val, 127), 8) + second.val,
                            off |-> second.off]
             ELSE [ok |-> TRUE, val |-> first.val, off |-> first.off]

read_var_length_u16(d, o) ==
    IF o >= Len(d) THEN [ok |-> TRUE, val |-> 0, off |-> o]
    ELSE LET first == read_u8(d, o)
         IN  IF BitAnd(first.val, 128) # 0
             THEN IF first.off >= Len(d)
                  THEN [ok |-> TRUE, val |-> 0, off |-> first.off]
                  ELSE LET second == read_u8(d, first.off)
                       IN  [ok |-> TRUE,
                            val |-> ShiftL(BitAnd(first.val, 127), 8) + second.val + 1,
                            off |-> second.off]
             ELSE [ok |-> TRUE, val |-> first.val + 1, off |-> first.off]

skip(o, n) == o + n

can_read(d, o, size) == o + size <= Len(d)

(***************************************************************************)
(* types.py: OpCode                                                        *)
(***************************************************************************)
SET_POS == 128
ADD_POS == 136
SET_VEL == 144
ADD_VEL == 152
SET_SIZE_LERP == 160
SET_FLAGS == 161
SET_GRAVITY == 162
SET_FRICTION == 163
MAKE_SCRIPT == 164
MAKE_GENERATOR == 165
SET_LIFE_RAND == 166
TRY_DEAD_RAND == 167
ADD_VEL_RAND == 168
SET_VEL_ANGLE == 169
MAKE_RAND == 170
MUL_VEL == 171
SET_SIZE_RAND == 172
SET_FLAG_80 == 173
NO_MASK_ST == 174
MASK_S == 175
MASK_T == 176
MASK_ST == 177
ALPHA_BLEND == 178
NO_DITHER == 179
DITHER == 180
NO_NOISE == 181
NOISE == 182
SET_DIST_VEL == 183
ADD_DIST_VEL_MAG == 184
MAKE_ID == 185
PRIM_BLEND_RAND == 186
ENV_BLEND_RAND == 187
SET_UNK_0B == 188
SET_VEL_MAG == 189
MUL_VEL_AXIS == 190
SET_ATTACH_ID == 191
SET_PRIM_BLEND == 192
SET_ENV_BLEND == 208
SET_LOOP == 250
LOOP == 251
SET_RETURN == 252
RETURN == 253
DEAD == 254
END == 255

\* the members of the enumeration: OpCode(v) raises ValueError for any other v
OpCode ==
    {SET_POS, ADD_POS, SET_VEL, ADD_VEL, SET_SIZE_LERP, SET_FLAGS, SET_GRAVITY,
     SET_FRICTION, MAKE_SCRIPT, MAKE_GENERATOR, SET_LIFE_RAND, TRY_DEAD_RAND,
     ADD_VEL_RAND, SET_VEL_ANGLE, MAKE_RAND, MUL_VEL, SET_SIZE_RAND, SET_FLAG_80,
     NO_MASK_ST, MASK_S, MASK_T, MASK_ST, ALPHA_BLEND, NO_DITHER, DITHER, NO_NOISE,
     NOISE, SET_DIST_VEL, ADD_DIST_VEL_MAG, MAKE_ID, PRIM_BLEND_RAND, ENV_BLEND_RAND,
     SET_UNK_0B, SET_VEL_MAG, MUL_VEL_AXIS, SET_ATTACH_ID, SET_PRIM_BLEND,
     SET_ENV_BLEND, SET_LOOP, LOOP, SET_RETURN, RETURN, DEAD, END}

(***************************************************************************)
(* types.py: the data classes.  Fields(cls) lists the fields of a class in *)
(* declaration order and Defaulted(cls) says how many trailing fields have *)
(* the default None.  New(cls, a) is the generated __init__ applied to the *)
(* positional arguments a: it raises TypeError (ok = FALSE) when a has     *)
(* more arguments than the class has fields, or leaves a field without a   *)
(* default unset.                                                          *)
(***************************************************************************)
Fields(cls) ==
    CASE cls = "WaitInstruction" -> <<"frames", "data_id">>
      [] cls = "VectorInstruction" -> <<"x", "y", "z">>
      [] cls = "SizeLerpInstruction" -> <<"lerp_length", "target_size">>
      [] cls = "ColorBlendInstruction" -> <<"lerp_length", "red", "green", "blue", "alpha">>
      [] cls = "ScriptInstruction" -> <<"script_id">>
      [] cls = "LifeRandInstruction" -> <<"base_life", "random_range">>
      [] cls = "TryDeadRandInstruction" -> <<"probability">>
      [] cls = "VelRandInstruction" -> <<"x_range", "y_range", "z_range">>
      [] cls = "VelAngleInstruction" -> <<"angle">>
      [] cls = "VelMulInstruction" -> <<"factor">>
      [] cls = "VelAxisMulInstruction" -> <<"x_factor", "y_factor", "z_factor">>
      [] cls = "UnkInstruction" -> <<"base_value", "random_range">>
      [] cls = "SetFlagsInstruction" -> <<"flags">>
      [] cls = "SetLoopInstruction" -> <<"count">>
      [] cls = "SimpleInstruction" -> << >>
      [] cls = "SetSizeRandInstruction" -> <<"base_size", "random_range">>

Defaulted(cls) ==
    CASE cls = "WaitInstruction" -> 1
      [] cls = "VectorInstruction" -> 3
      [] cls = "ColorBlendInstruction" -> 4
      [] OTHER -> 0

New(cls, a) ==
    LET f == Fields(cls)
    IN  IF Len(a) > Len(f) \/ Len(a) < Len(f) - Defaulted(cls)
        THEN [ok |-> FALSE, val |-> None]
        ELSE [ok |-> TRUE,
              val |-> [cls |-> cls,
                       fields |-> [name \in {f[k] : k \in 1..Len(f)} |->
                                      LET k == CHOOSE j \in 1..Len(f) : f[j] = name
                                      IN  IF k <= Len(a) THEN a[k] ELSE None]]]

\* Instruction(opcode, args)
Instruction(opcode, args) == [opcode |-> opcode, args |-> args]

(***************************************************************************)
(* EffectScriptParser._parse_instruction.  A call ends in one of three     *)
(* ways: it returns an Instruction (kind "instr"), it returns None (kind   *)
(* "none"), or an exception leaves it (kind "raise", val the exception).   *)
(* off is the reader offset the call leaves behind.                        *)
(***************************************************************************)
Returned(i, o) == [kind |-> "instr", val |-> i, off |-> o]
ReturnedNone(o) == [kind |-> "none", val |-> None, off |-> o]
Raised(exc, o) == [kind |-> "raise", val |-> exc, off |-> o]

\* a read that is made only when bit `mask` of the opcode is set, after `prev`
ReadIfBit(opcode, mask, prev, r) ==
    IF ~prev.ok THEN prev
    ELSE IF BitAnd(opcode, mask) # 0
         THEN IF r.ok THEN [r EXCEPT !.val = Some(r.val)] ELSE r
         ELSE Skipped(prev.off)

\* ParseWait reading the data-id byte before the extra frame byte
ParseWaitIdFirst(d, o, opcode) ==
    LET base == BitAnd(opcode, 31)
        data_id == ReadIfBit(opcode, 64, Skipped(o), read_u8(d, o))
        extra == IF ~data_id.ok THEN data_id
                 ELSE IF BitAnd(opcode, 32) # 0 THEN read_u8(d, data_id.off)
                 ELSE Skipped(data_id.off)
        frames == IF BitAnd(opcode, 32) # 0 /\ extra.ok
                  THEN BitOr(ShiftL(base, 8), extra.val)
                  ELSE base
        args == New("WaitInstruction", <<frames, data_id.val>>)
    IN  IF ~extra.ok THEN Raised(extra.val, extra.off)
        ELSE IF ~args.ok THEN Raised("TypeError", extra.off)
        ELSE Returned(Instruction(END, args.val), extra.off)

\* lines 122-131
ParseWait(d, o, opcode) ==
    LET base == BitAnd(opcode, 31)
        extra == IF BitAnd(opcode, 32) # 0 THEN read_u8(d, o) ELSE Skipped(o)
        frames == IF BitAnd(opcode, 32) # 0 /\ extra.ok
                  THEN BitOr(ShiftL(base, 8), extra.val)
                  ELSE base
        data_id == ReadIfBit(opcode, 64, extra, read_u8(d, extra.off))
        args == New("WaitInstruction", <<frames, data_id.val>>)
    IN  IF ~data_id.ok THEN Raised(data_id.val, data_id.off)
        ELSE IF ~args.ok THEN Raised("TypeError", data_id.off)
        ELSE Returned(Instruction(END, args.val), data_id.off)

\* ParseVector reading the components in z, y, x order
ParseVectorReversed(d, o, opcode) ==
    LET args == New("VectorInstruction", << >>)
        z == ReadIfBit(opcode, 4, Skipped(o), read_float(d, o))
        y == ReadIfBit(opcode, 2, z, read_float(d, z.off))
        x == ReadIfBit(opcode, 1, y, read_float(d, y.off))
    IN  IF ~args.ok THEN Raised("TypeError", o)
        ELSE IF ~x.ok THEN Raised(x.val, x.off)
        ELSE Returned(
                 Instruction(BitAnd(opcode, 248),
                             [args.val EXCEPT !.fields.x = x.val,
                                              !.fields.y = y.val,
                                              !.fields.z = z.val]),
                 x.off)

\* lines 133-147
ParseVector(d, o, opcode) ==
    LET args == New("VectorInstruction", << >>)
        x == ReadIfBit(opcode, 1, Skipped(o), read_float(d, o))
        y == ReadIfBit(opcode, 2, x, read_float(d, x.off))
        z == ReadIfBit(opcode, 4, y, read_float(d, y.off))
    IN  IF ~args.ok THEN Raised("TypeError", o)
        ELSE IF ~z.ok THEN Raised(z.val, z.off)
        ELSE Returned(
                 Instruction(BitAnd(opcode, 248),
                             [args.val EXCEPT !.fields.x = x.val,
                                              !.fields.y = y.val,
                                              !.fields.z = z.val]),
                 z.off)

\* ParseColorBlend reading alpha first
ParseColorBlendAlphaFirst(d, o, opcode) ==
    LET length == read_var_length_u16(d, o)
        args == New("ColorBlendInstruction", <<length.val>>)
        alpha == ReadIfBit(opcode, 8, length, read_u8(d, length.off))
        red == ReadIfBit(opcode, 1, alpha, read_u8(d, alpha.off))
        green == ReadIfBit(opcode, 2, red, read_u8(d, red.off))
        blue == ReadIfBit(opcode, 4, green, read_u8(d, green.off))
    IN  IF ~args.ok THEN Raised("TypeError", length.off)
        ELSE IF ~blue.ok THEN Raised(blue.val, blue.off)
        ELSE Returned(
                 Instruction(BitAnd(opcode, 240),
                             [args.val EXCEPT !.fields.red = red.val,
                                              !.fields.green = green.val,
                                              !.fields.blue = blue.val,
                                              !.fields.alpha = alpha.val]),
                 blue.off)

\* lines 149-161
ParseColorBlend(d, o, opcode) ==
    LET length == read_var_length_u16(d, o)
        args == New("ColorBlendInstruction", <<length.val>>)
        red == ReadIfBit(opcode, 1, length, read_u8(d, length.off))
        green == ReadIfBit(opcode, 2, red, read_u8(d, red.off))
        blue == ReadIfBit(opcode, 4, green, read_u8(d, green.off))
        alpha == ReadIfBit(opcode, 8, blue, read_u8(d, blue.off))
    IN  IF ~args.ok THEN Raised("TypeError", length.off)
        ELSE IF ~alpha.ok THEN Raised(alpha.val, alpha.off)
        ELSE Returned(
                 Instruction(BitAnd(opcode, 240),
                             [args.val EXCEPT !.fields.red = red.val,
                                              !.fields.green = green.val,
                                              !.fields.blue = blue.val,
                                              !.fields.alpha = alpha.val]),
                 alpha.off)

\* the reads each branch of lines 169-234 makes, in order
Layout(op) ==
    CASE op \in {MAKE_SCRIPT, MAKE_GENERATOR, MAKE_ID} -> <<"u16">>
      [] op = SET_SIZE_LERP -> <<"var", "float">>
      [] op = SET_LIFE_RAND -> <<"u16", "u16">>
      [] op = TRY_DEAD_RAND -> <<"u8">>
      [] op = ADD_VEL_RAND -> <<"float", "float", "float">>
      [] op = SET_VEL_ANGLE -> <<"float">>
      [] op = MUL_VEL -> <<"float">>
      [] op = MUL_VEL_AXIS -> <<"float", "float", "float">>
      [] op = SET_UNK_0B -> <<"u8", "u8">>
      [] op = SET_FLAGS -> <<"u8">>
      [] op = SET_LOOP -> <<"u8">>
      [] op = SET_SIZE_RAND -> <<"var", "float", "float">>
      [] op \in {LOOP, SET_RETURN, RETURN, DEAD, END} -> << >>

\* the class each branch of lines 169-234 constructs from what it read
ArgsClass(op) ==
    CASE op \in {MAKE_SCRIPT, MAKE_GENERATOR, MAKE_ID} -> "ScriptInstruction"
      [] op = SET_SIZE_LERP -> "SizeLerpInstruction"
      [] op = SET_LIFE_RAND -> "LifeRandInstruction"
      [] op = TRY_DEAD_RAND -> "TryDeadRandInstruction"
      [] op = ADD_VEL_RAND -> "VelRandInstruction"
      [] op = SET_VEL_ANGLE -> "VelAngleInstruction"
      [] op = MUL_VEL -> "VelMulInstruction"
      [] op = MUL_VEL_AXIS -> "VelAxisMulInstruction"
      [] op = SET_UNK_0B -> "UnkInstruction"
      [] op = SET_FLAGS -> "SetFlagsInstruction"
      [] op = SET_LOOP -> "SetLoopInstruction"
      [] op = SET_SIZE_RAND -> "SetSizeRandInstruction"
      [] op \in {LOOP, SET_RETURN, RETURN, DEAD, END} -> "SimpleInstruction"

\* the opcodes lines 169-234 have a branch for
Handled ==
    {MAKE_SCRIPT, MAKE_GENERATOR, MAKE_ID, SET_SIZE_LERP, SET_LIFE_RAND, TRY_DEAD_RAND,
     ADD_VEL_RAND, SET_VEL_ANGLE, MUL_VEL, MUL_VEL_AXIS, SET_UNK_0B, SET_FLAGS,
     SET_LOOP, SET_SIZE_RAND, LOOP, SET_RETURN, RETURN, DEAD, END}

ReadField(d, o, kind) ==
    CASE kind = "u8" -> read_u8(d, o)
      [] kind = "u16" -> read_u16(d, o)
      [] kind = "float" -> read_float(d, o)
      [] kind = "var" -> read_var_length_u16(d, o)
      [] kind = "u32" -> read_u32(d, o)
      [] kind = "vec3f" -> read_vec3f(d, o)
      [] kind = "skip12" -> [ok |-> TRUE, val |-> None, off |-> skip(o, 12)]

\* the fields of a layout read one after the other; val collects the values
RECURSIVE ReadFields(_, _, _)
ReadFields(d, o, layout) ==
    IF layout = << >> THEN [ok |-> TRUE, val |-> << >>, off |-> o]
    ELSE LET r == ReadField(d, o, Head(layout))
             rest == ReadFields(d, r.off, Tail(layout))
         IN  IF ~r.ok THEN r
             ELSE IF ~rest.ok THEN rest
             ELSE [ok |-> TRUE, val |-> <<r.val>> \o rest.val, off |-> rest.off]

\* ParseExact leaving the opcode byte of a parameterless opcode unconsumed
ParseExactPeek(d, o, op) ==
    IF op \notin Handled THEN ReturnedNone(o)
    ELSE LET r == ReadFields(d, o, Layout(op))
             args == New(ArgsClass(op), r.val)
         IN  IF ~r.ok THEN Raised(r.val, r.off)
             ELSE IF ~args.ok THEN Raised("TypeError", r.off)
             ELSE Returned(Instruction(op, args.val),
                           IF Layout(op) = << >> THEN o - 1 ELSE r.off)

\* lines 163-236, for an opcode that is a member of OpCode
ParseExact(d, o, op) ==
    IF op \notin Handled THEN ReturnedNone(o)
    ELSE LET r == ReadFields(d, o, Layout(op))
             args == New(ArgsClass(op), r.val)
         IN  IF ~r.ok THEN Raised(r.val, r.off)
             ELSE IF ~args.ok THEN Raised("TypeError", r.off)
             ELSE Returned(Instruction(op, args.val), r.off)

\* lines 109-236, on the reader (d, o)
ParseInstruction(d, o) ==
    IF ~can_read(d, o, 1) THEN ReturnedNone(o)
    ELSE LET opcode == read_u8(d, o)
         IN  IF opcode.val < 128 THEN ParseWait(d, opcode.off, opcode.val)
             ELSE IF BitAnd(opcode.val, 248) \in {SET_POS, ADD_POS, SET_VEL, ADD_VEL}
                  THEN ParseVector(d, opcode.off, opcode.val)
             ELSE IF BitAnd(opcode.val, 240) \in {SET_PRIM_BLEND, SET_ENV_BLEND}
                  THEN ParseColorBlend(d, opcode.off, opcode.val)
             ELSE IF opcode.val \notin OpCode THEN ReturnedNone(opcode.off)
             ELSE ParseExact(d, opcode.off, opcode.val)

(***************************************************************************)
(* EffectScriptParser._parse_effect_script                                 *)
(***************************************************************************)
\* lines 239-251: the reads of the record header, in order
HeaderLayout ==
    <<"u16", "u16", "u16", "u16", "u32", "float", "float", "vec3f", "skip12", "float">>

\* lines 239-251 on the reader (d, o); val holds the header fields
ParseHeader(d, o) ==
    LET r == ReadFields(d, o, HeaderLayout)
    IN  IF ~r.ok THEN r
        ELSE [ok |-> TRUE,
              val |-> [kind |-> r.val[1], texture_id |-> r.val[2],
                       effect_lifetime |-> r.val[3], particle_lifetime |-> r.val[4],
                       flags |-> r.val[5], gravity |-> r.val[6], friction |-> r.val[7],
                       velocity |-> r.val[8], size |-> r.val[10]],
              off |-> r.off]

\* lines 256-257: the loop's first break
AtBoundary(np, o) == np # None /\ o >= np[1]

\* lines 264-265: the loop's last break
EndsStream(i) == i.opcode = END

\* lines 267-278
EffectScript(h, code) ==
    [kind |-> h.kind, texture_id |-> h.texture_id, effect_lifetime |-> h.effect_lifetime,
     particle_lifetime |-> h.particle_lifetime, flags |-> h.flags, gravity |-> h.gravity,
     friction |-> h.friction, velocity |-> h.velocity, size |-> h.size,
     bytecode |-> code]

(***************************************************************************)
(* EffectScriptParser._parse_particle_script_desc                          *)
(***************************************************************************)
EffectScriptPtr(ptr_value, target) == [ptr_value |-> ptr_value, target |-> target]

ParticleScriptDesc(c, s) == [count |-> c, scripts |-> s]

\* lines 293-297: the pointer of the first script after index i (0-based) whose
\* pointer is not 0, or None
RECURSIVE NextPtrFrom(_, _)
NextPtrFrom(s, j) ==
    IF j > Len(s) THEN None
    ELSE IF s[j].ptr_value # 0 THEN Some(s[j].ptr_value)
    ELSE NextPtrFrom(s, j + 1)

\* the pointer of the script right after index i, null or not
NextPtrAdjacent(s, i) == IF i + 2 > Len(s) THEN None ELSE Some(s[i + 2].ptr_value)

NextPtr(s, i) == NextPtrFrom(s, i + 2)

(***************************************************************************)
(* Single calls on a reader over a short buffer, the way the tests call    *)
(* _parse_instruction(data): the buffer holds Pad bytes, then an opcode    *)
(* byte, two operand bytes drawn from samples and a tail of distinct       *)
(* bytes, cut to any length; the reader stands after the pad.              *)
(***************************************************************************)
FirstSample == {0, 60, 128, 255}
SecondSample == {1, 255}

TailByte(k) == (37 * k + 11) % 256

InstrBytes(op, b1, b2) ==
    [k \in 1..MaxInstrLen |->
        IF k = 1 THEN op ELSE IF k = 2 THEN b1 ELSE IF k = 3 THEN b2 ELSE TailByte(k)]

InstrBuffer(pad, op, b1, b2, n) ==
    [k \in 1..(pad + n) |->
        IF k <= pad THEN TailByte(k + 100) ELSE InstrBytes(op, b1, b2)[k - pad]]

Idle ==
    /\ count = 0
    /\ scripts = << >>
    /\ idx = 0
    /\ next_ptr = None
    /\ old_offset = 0
    /\ header = None
    /\ bytecode = << >>
    /\ stop = "none"
    /\ result = None

InitInstr ==
    /\ \E pad \in 0..MaxPad, op \in 0..255, b1 \in FirstSample, b2 \in SecondSample,
          n \in 0..MaxInstrLen :
          /\ data = InstrBuffer(pad, op, b1, b2, n)
          /\ offset = pad
    /\ pc = "ready"
    /\ instr = ReturnedNone(0)
    /\ opbyte = -1
    /\ start = 0
    /\ varlen = 0
    /\ Idle

\* parser._parse_instruction() on the reader
CallParseInstruction ==
    /\ pc = "ready"
    /\ instr' = ParseInstruction(data, offset)
    /\ opbyte' = IF can_read(data, offset, 1) THEN data[offset + 1] ELSE -1
    /\ start' = offset
    /\ offset' = instr'.off
    /\ pc' = "decoded"
    /\ UNCHANGED <<data, varlen, count, scripts, idx, next_ptr, old_offset, header,
                   bytecode, stop, result>>

\* reader.read_var_length_u16()
CallReadVarLength ==
    /\ pc = "ready"
    /\ varlen' = read_var_length_u16(data, offset).val
    /\ start' = offset
    /\ offset' = read_var_length_u16(data, offset).off
    /\ pc' = "varlen"
    /\ UNCHANGED <<data, instr, opbyte, count, scripts, idx, next_ptr, old_offset,
                   header, bytecode, stop, result>>

NextInstr == CallParseInstruction \/ CallReadVarLength

SpecInstr == InitInstr /\ [][NextInstr]_vars

(***************************************************************************)
(* parse(data) on a table buffer: the count, MaxCount pointer slots, a     *)
(* first record (header and bytecode) and a second record right after it.  *)
(* The pointers are 0, the start of either record, a place inside the      *)
(* first record, or past the end; the buffer may be cut short.             *)
(***************************************************************************)
\* the bytes lines 239-251 read or skip
HeaderLen == 2 + 2 + 2 + 2 + 4 + 4 + 4 + 12 + 12 + 4

\* big-endian bytes of a value in 0 .. 2^31 - 1
Pack32(v) == <<(v \div 16777216) % 256, (v \div 65536) % 256, (v \div 256) % 256, v % 256>>

\* big-endian two's complement bytes of a signed 32-bit value
PackSigned32(v) ==
    IF v >= 0 THEN Pack32(v)
    ELSE LET w == (v + 2147483647) + 1
         IN  <<128 + (w \div 16777216), (w \div 65536) % 256, (w \div 256) % 256, w % 256>>

CountSample == {-1} \cup (0..MaxCount)

\* bytecode of the first record
Programs1 ==
    {<< >>, <<255>>, <<5, 255>>, <<254, 255>>, <<129>>, <<224, 255>>, <<162, 255>>,
     <<200, 100, 0, 255>>, <<254, 135>>, <<172, 0>>}

\* bytecode of the second record, which ends the buffer
Programs2 == {<<255>>, <<254>>, <<161>>}

HeaderBytes(r) == [k \in 1..HeaderLen |-> (5 * k + 3 * r) % 128]

FirstRecord == 4 + 4 * MaxCount

SecondRecord(c1) == FirstRecord + HeaderLen + Len(c1)

PastEnd(c1, c2) == SecondRecord(c1) + HeaderLen + Len(c2) + 4

\* a pointer into the first record's header, so that two records overlap
Overlapping == FirstRecord + 20

PtrSample(c1, c2) == {0, FirstRecord, Overlapping, SecondRecord(c1), PastEnd(c1, c2)}

\* the lengths a buffer is cut to: inside the count, inside the first pointer,
\* inside the first record's header (in a u16, in the vec3f, in the last float),
\* right after the first record's bytecode, and not at all
CutSample(c1, c2) ==
    {2, 6, FirstRecord + 1, FirstRecord + 26, FirstRecord + 46, SecondRecord(c1),
     SecondRecord(c1) + HeaderLen + Len(c2)}

RECURSIVE Flatten(_)
Flatten(ss) == IF ss = << >> THEN << >> ELSE Head(ss) \o Flatten(Tail(ss))

TableBuffer(cnt, ptrs, c1, c2) ==
    PackSigned32(cnt)
        \o Flatten([k \in 1..MaxCount |-> Pack32(IF k <= Len(ptrs) THEN ptrs[k] ELSE 0)])
        \o HeaderBytes(1) \o c1 \o HeaderBytes(2) \o c2

Init ==
    /\ \E cnt \in CountSample, c1 \in Programs1, c2 \in Programs2 :
          \E ptrs \in [1..(IF cnt < 0 THEN 1 ELSE cnt) -> PtrSample(c1, c2)] :
          \E cut \in CutSample(c1, c2) :
              data = SubSeq(TableBuffer(cnt, ptrs, c1, c2), 1, cut)
    /\ offset = 0
    /\ pc = "start"
    /\ instr = ReturnedNone(0)
    /\ opbyte = -1
    /\ start = 0
    /\ varlen = 0
    /\ Idle

\* line 281-282
ReadCount ==
    /\ pc = "start"
    /\ LET r == read_s32(data, offset)
       IN  IF r.ok
           THEN /\ count' = r.val
                /\ offset' = r.off
                /\ pc' = "pointers"
           ELSE /\ pc' = "error"
                /\ UNCHANGED <<count, offset>>
    /\ UNCHANGED <<data, instr, opbyte, start, varlen, scripts, idx, next_ptr,
                   old_offset, header, bytecode, stop, result>>

\* lines 285-287: one iteration of the pointer loop
ReadPointer ==
    /\ pc = "pointers"
    /\ idx < count
    /\ LET r == read_u32(data, offset)
       IN  IF r.ok
           THEN /\ scripts' = Append(scripts, EffectScriptPtr(r.val, None))
                /\ offset' = r.off
                /\ idx' = idx + 1
                /\ pc' = "pointers"
           ELSE /\ pc' = "error"
                /\ UNCHANGED <<scripts, offset, idx>>
    /\ UNCHANGED <<data, instr, opbyte, start, varlen, count, next_ptr, old_offset,
                   header, bytecode, stop, result>>

\* line 285: range(count) is exhausted; line 290 begins
EndPointers ==
    /\ pc = "pointers"
    /\ idx >= count
    /\ idx' = 0
    /\ pc' = "scripts"
    /\ UNCHANGED <<data, offset, instr, opbyte, start, varlen, count, scripts, next_ptr,
                   old_offset, header, bytecode, stop, result>>

\* lines 290-291: a script whose pointer is 0 is passed over
SkipNull ==
    /\ pc = "scripts"
    /\ idx < Len(scripts)
    /\ scripts[idx + 1].ptr_value = 0
    /\ idx' = idx + 1
    /\ UNCHANGED <<data, offset, pc, instr, opbyte, start, varlen, count, scripts,
                   next_ptr, old_offset, header, bytecode, stop, result>>

\* lines 291-301: next_ptr, old_offset, the seek, and the call
EnterScript ==
    /\ pc = "scripts"
    /\ idx < Len(scripts)
    /\ scripts[idx + 1].ptr_value # 0
    /\ next_ptr' = NextPtr(scripts, idx)
    /\ old_offset' = offset
    /\ offset' = scripts[idx + 1].ptr_value
    /\ pc' = "header"
    /\ UNCHANGED <<data, instr, opbyte, start, varlen, count, scripts, idx, header,
                   bytecode, stop, result>>

\* lines 239-254
ReadHeader ==
    /\ pc = "header"
    /\ LET r == ParseHeader(data, offset)
       IN  IF r.ok
           THEN /\ header' = r.val
                /\ bytecode' = << >>
                /\ pc' = "bytecode"
           ELSE /\ pc' = "error"
                /\ UNCHANGED <<header, bytecode>>
    /\ offset' = ParseHeader(data, offset).off
    /\ UNCHANGED <<data, instr, opbyte, start, varlen, count, scripts, idx, next_ptr,
                   old_offset, stop, result>>

\* lines 255-257: the loop ends at the boundary
BoundaryBreak ==
    /\ pc = "bytecode"
    /\ AtBoundary(next_ptr, offset)
    /\ stop' = "boundary"
    /\ pc' = "return"
    /\ UNCHANGED <<data, offset, instr, opbyte, start, varlen, count, scripts, idx,
                   next_ptr, old_offset, header, bytecode, result>>

\* lines 255-265: one iteration of the loop that calls _parse_instruction
LoopIteration ==
    /\ pc = "bytecode"
    /\ ~AtBoundary(next_ptr, offset)
    /\ instr' = ParseInstruction(data, offset)
    /\ opbyte' = IF can_read(data, offset, 1) THEN data[offset + 1] ELSE -1
    /\ start' = offset
    /\ offset' = instr'.off
    /\ CASE instr'.kind = "raise" ->
              /\ pc' = "error"
              /\ UNCHANGED <<bytecode, stop>>
         [] instr'.kind = "none" ->
              /\ stop' = "none"
              /\ pc' = "return"
              /\ UNCHANGED bytecode
         [] instr'.kind = "instr" ->
              /\ bytecode' = Append(bytecode, instr'.val)
              /\ IF EndsStream(instr'.val)
                 THEN stop' = "end" /\ pc' = "return"
                 ELSE pc' = "bytecode" /\ UNCHANGED stop
    /\ UNCHANGED <<data, varlen, count, scripts, idx, next_ptr, old_offset, header,
                   result>>

\* FinishScript without the seek back to old_offset
FinishScriptNoSeek ==
    /\ pc = "return"
    /\ scripts' = [scripts EXCEPT ![idx + 1].target = Some(EffectScript(header, bytecode))]
    /\ idx' = idx + 1
    /\ pc' = "scripts"
    /\ UNCHANGED <<data, offset, instr, opbyte, start, varlen, count, next_ptr,
                   old_offset, header, bytecode, stop, result>>

\* lines 267-278 and 301-302: the record is returned and the reader seeks back
FinishScript ==
    /\ pc = "return"
    /\ scripts' = [scripts EXCEPT ![idx + 1].target = Some(EffectScript(header, bytecode))]
    /\ offset' = old_offset
    /\ idx' = idx + 1
    /\ pc' = "scripts"
    /\ UNCHANGED <<data, instr, opbyte, start, varlen, count, next_ptr, old_offset,
                   header, bytecode, stop, result>>

\* line 304
Return ==
    /\ pc = "scripts"
    /\ idx >= Len(scripts)
    /\ result' = Some(ParticleScriptDesc(count, scripts))
    /\ pc' = "done"
    /\ UNCHANGED <<data, offset, instr, opbyte, start, varlen, count, scripts, idx,
                   next_ptr, old_offset, header, bytecode, stop>>

Next ==
    \/ ReadCount
    \/ ReadPointer
    \/ EndPointers
    \/ SkipNull
    \/ EnterScript
    \/ ReadHeader
    \/ BoundaryBreak
    \/ LoopIteration
    \/ FinishScript
    \/ Return

Spec == Init /\ [][Next]_vars

(***************************************************************************)
(* Claims about a single _parse_instruction / read_var_length_u16 call     *)
(* (SpecInstr).  The reference values are written with \div and %, on the  *)
(* bytes of the buffer, not with the operators of the model.               *)
(***************************************************************************)
Bit(o, mask) == (o \div mask) % 2

\* the byte k places after the opcode byte of the last call
Operand(k) == data[start + 1 + k]

\* the big-endian float in the 4 bytes that begin k places after the opcode byte
OperandFloat(k) == UnpackF(<<Operand(k), Operand(k + 1), Operand(k + 2), Operand(k + 3)>>)

Decoded == pc = "decoded" /\ opbyte >= 0

\* C1: an opcode byte o below 0x80 whose operand bytes are in the buffer decodes to
\* a Wait instruction with frames (o & 0x1F), or ((o & 0x1F) << 8) | extra when bit
\* 0x20 is set, with data_id the byte after that when bit 0x40 is set and None
\* otherwise, and the cursor moves by 1 + [bit 0x20] + [bit 0x40].
C1_WaitDecoding ==
    (Decoded /\ opbyte < 128
        /\ start + 1 + Bit(opbyte, 32) + Bit(opbyte, 64) <= Len(data))
    => /\ instr.kind = "instr"
       /\ instr.val.args.cls = "WaitInstruction"
       /\ instr.val.args.fields.frames =
              IF Bit(opbyte, 32) = 1 THEN (opbyte % 32) * 256 + Operand(1) ELSE opbyte % 32
       /\ instr.val.args.fields.data_id =
              IF Bit(opbyte, 64) = 1 THEN Some(Operand(1 + Bit(opbyte, 32))) ELSE None
       /\ offset = start + 1 + Bit(opbyte, 32) + Bit(opbyte, 64)

\* a Wait with both the extra byte and the data-id byte, which differ
C1_Witness ==
    /\ Decoded /\ opbyte < 128 /\ Bit(opbyte, 32) = 1 /\ Bit(opbyte, 64) = 1
    /\ instr.kind = "instr"
    /\ instr.val.args.fields.frames > 255
    /\ instr.val.args.fields.data_id # None
    /\ Operand(1) # Operand(2)
    /\ offset = start + 3

\* C2: an opcode byte o in 0x80..0x9F whose operand bytes are in the buffer decodes
\* to an instruction tagged o & 0xF8 whose components x, y, z are present exactly
\* when bits 0, 1, 2 of o are set, each read from the next 4 bytes in x, y, z order,
\* the others None, and the cursor moves by 1 + 4 * (number of set bits).
C2_VectorDecoding ==
    (Decoded /\ opbyte >= 128 /\ opbyte < 160
        /\ start + 1 + 4 * (Bit(opbyte, 1) + Bit(opbyte, 2) + Bit(opbyte, 4)) <= Len(data))
    => /\ instr.kind = "instr"
       /\ instr.val.opcode = opbyte - (opbyte % 8)
       /\ instr.val.args.cls = "VectorInstruction"
       /\ instr.val.args.fields.x =
              IF Bit(opbyte, 1) = 1 THEN Some(OperandFloat(1)) ELSE None
       /\ instr.val.args.fields.y =
              IF Bit(opbyte, 2) = 1 THEN Some(OperandFloat(1 + 4 * Bit(opbyte, 1))) ELSE None
       /\ instr.val.args.fields.z =
              IF Bit(opbyte, 4) = 1
              THEN Some(OperandFloat(1 + 4 * (Bit(opbyte, 1) + Bit(opbyte, 2))))
              ELSE None
       /\ offset = start + 1 + 4 * (Bit(opbyte, 1) + Bit(opbyte, 2) + Bit(opbyte, 4))

\* a vector instruction with y absent and x, z read from consecutive fields
C2_Witness ==
    /\ Decoded /\ opbyte >= 128 /\ opbyte < 160
    /\ Bit(opbyte, 1) = 1 /\ Bit(opbyte, 2) = 0 /\ Bit(opbyte, 4) = 1
    /\ instr.kind = "instr"
    /\ instr.val.args.fields.y = None
    /\ instr.val.args.fields.x # instr.val.args.fields.z
    /\ offset = start + 9

\* the length of the variable-length field that begins 1 place after the opcode
FieldLen == IF Operand(1) >= 128 THEN 2 ELSE 1

FieldValue ==
    IF Operand(1) >= 128 THEN (Operand(1) - 128) * 256 + Operand(2) + 1 ELSE Operand(1) + 1

\* the number of channels the low 4 bits of the opcode select
Channels(o) == Bit(o, 1) + Bit(o, 2) + Bit(o, 4) + Bit(o, 8)

\* C3: an opcode byte o in 0xC0..0xDF whose operand bytes are in the buffer decodes
\* to an instruction tagged o & 0xF0 whose lerp_length is the variable-length field
\* read first, and whose channels red, green, blue, alpha are present exactly when
\* bits 0, 1, 2, 3 of o are set, one byte each in that order, the others None.
C3_ColorBlendDecoding ==
    (Decoded /\ opbyte >= 192 /\ opbyte < 224
        /\ start + 2 <= Len(data)
        /\ start + 1 + FieldLen + Channels(opbyte) <= Len(data))
    => /\ instr.kind = "instr"
       /\ instr.val.opcode = opbyte - (opbyte % 16)
       /\ instr.val.args.cls = "ColorBlendInstruction"
       /\ instr.val.args.fields.lerp_length = FieldValue
       /\ instr.val.args.fields.red =
              IF Bit(opbyte, 1) = 1 THEN Some(Operand(FieldLen + 1)) ELSE None
       /\ instr.val.args.fields.green =
              IF Bit(opbyte, 2) = 1 THEN Some(Operand(FieldLen + 1 + Bit(opbyte, 1))) ELSE None
       /\ instr.val.args.fields.blue =
              IF Bit(opbyte, 4) = 1
              THEN Some(Operand(FieldLen + 1 + Bit(opbyte, 1) + Bit(opbyte, 2)))
              ELSE None
       /\ instr.val.args.fields.alpha =
              IF Bit(opbyte, 8) = 1
              THEN Some(Operand(FieldLen + 1 + Bit(opbyte, 1) + Bit(opbyte, 2) + Bit(opbyte, 4)))
              ELSE None
       /\ offset = start + 1 + FieldLen + Channels(opbyte)

\* a blend with a two-byte length, green absent, and red, blue, alpha all different
C3_Witness ==
    /\ Decoded /\ opbyte >= 192 /\ opbyte < 224
    /\ Bit(opbyte, 1) = 1 /\ Bit(opbyte, 2) = 0 /\ Bit(opbyte, 4) = 1 /\ Bit(opbyte, 8) = 1
    /\ instr.kind = "instr"
    /\ instr.val.args.fields.lerp_length > 128
    /\ instr.val.args.fields.green = None
    /\ instr.val.args.fields.red # instr.val.args.fields.blue
    /\ instr.val.args.fields.blue # instr.val.args.fields.alpha
    /\ offset = start + 6

\* the input of the last read_var_length_u16 call is truncated: no byte at the
\* cursor, or a first byte with bit 0x80 set and no byte after it
Truncated ==
    \/ start >= Len(data)
    \/ data[start + 1] >= 128 /\ start + 1 >= Len(data)

\* C4: read_var_length_u16 returns b + 1 and consumes 1 byte for a first byte b
\* below 0x80; (((b & 0x7F) << 8) | c) + 1 and 2 bytes for a first byte b with bit
\* 0x80 set and a second byte c; 0 exactly when the input is truncated; so every
\* decode that is not truncated is in 1..32768.
C4_VarLength ==
    pc = "varlen"
    => /\ (start < Len(data) /\ data[start + 1] < 128)
            => varlen = data[start + 1] + 1 /\ offset = start + 1
       /\ (start + 1 < Len(data) /\ data[start + 1] >= 128)
            => /\ varlen = (data[start + 1] % 128) * 256 + data[start + 2] + 1
               /\ offset = start + 2
       /\ (varlen = 0) <=> Truncated
       /\ ~Truncated => varlen >= 1 /\ varlen <= 32768

\* the largest two-byte decode
C4_Witness == pc = "varlen" /\ ~Truncated /\ data[start + 1] >= 128 /\ varlen = 32768

\* a first byte with bit 0x80 set and nothing after it
C4_WitnessTruncated ==
    pc = "varlen" /\ start < Len(data) /\ Truncated /\ varlen = 0

\* C5: opcode byte 0xAC followed by a variable-length field and two floats decodes
\* to a SET_SIZE_RAND instruction that carries lerp_length, the base size and the
\* random range, and the cursor moves past the opcode, the field and the 8 bytes.
C5_SetSizeRand ==
    (Decoded /\ opbyte = 172
        /\ start + 2 <= Len(data)
        /\ start + 1 + FieldLen + 8 <= Len(data))
    => /\ instr.kind = "instr"
       /\ instr.val.opcode = SET_SIZE_RAND
       /\ offset = start + 1 + FieldLen + 8

\* the variant class that belongs to the family of an opcode tag
FamilyClass(tag) ==
    CASE tag \in {SET_POS, ADD_POS, SET_VEL, ADD_VEL} -> "VectorInstruction"
      [] tag \in {SET_PRIM_BLEND, SET_ENV_BLEND} -> "ColorBlendInstruction"
      [] tag \in {MAKE_SCRIPT, MAKE_GENERATOR, MAKE_ID} -> "ScriptInstruction"
      [] tag = SET_SIZE_LERP -> "SizeLerpInstruction"
      [] tag = SET_LIFE_RAND -> "LifeRandInstruction"
      [] tag = TRY_DEAD_RAND -> "TryDeadRandInstruction"
      [] tag = ADD_VEL_RAND -> "VelRandInstruction"
      [] tag = SET_VEL_ANGLE -> "VelAngleInstruction"
      [] tag = MUL_VEL -> "VelMulInstruction"
      [] tag = MUL_VEL_AXIS -> "VelAxisMulInstruction"
      [] tag = SET_UNK_0B -> "UnkInstruction"
      [] tag = SET_FLAGS -> "SetFlagsInstruction"
      [] tag = SET_LOOP -> "SetLoopInstruction"
      [] tag = SET_SIZE_RAND -> "SetSizeRandInstruction"
      [] tag \in {LOOP, SET_RETURN, RETURN, DEAD, END} -> "SimpleInstruction"
      [] OTHER -> "none"

\* C6: every Instruction _parse_instruction returns pairs its opcode tag with the
\* variant of that tag's family: END only with the parameterless variant, and a
\* Wait variant never with the tag of another family.
C6_TagMatchesVariant ==
    (Decoded /\ instr.kind = "instr")
    => /\ instr.val.opcode = END => instr.val.args.cls = "SimpleInstruction"
       /\ instr.val.args.cls = "WaitInstruction" => FamilyClass(instr.val.opcode) = "none"
       /\ FamilyClass(instr.val.opcode) # "none"
            => instr.val.args.cls = FamilyClass(instr.val.opcode)

(***************************************************************************)
(* Claims about parse on a table buffer (Spec).                            *)
(***************************************************************************)
\* the k-th pointer of the table (k = 1 is the first), from the bytes of the buffer
PointerAt(k) ==
    ((data[4 * k + 1] * 256 + data[4 * k + 2]) * 256 + data[4 * k + 3]) * 256 + data[4 * k + 4]

\* the boundary of slot k: the pointer of the first later slot that is not null
BoundaryOf(k) ==
    LET later == {j \in (k + 1)..count : PointerAt(j) # 0}
    IN  IF later = {} THEN None
        ELSE Some(PointerAt(CHOOSE j \in later : \A m \in later : j <= m))

\* C7: the instruction loop of a record stops only after appending an instruction
\* decoded from the END opcode byte 0xFF, at the record's boundary, or when the
\* decoder returns no instruction; an instruction of another family never ends it.
C7_StreamStops ==
    pc = "return"
    => \/ stop = "end" /\ opbyte = 255 /\ bytecode # << >>
       \/ stop = "boundary" /\ BoundaryOf(idx + 1) # None /\ offset >= BoundaryOf(idx + 1)[1]
       \/ stop = "none" /\ instr.kind = "none"

\* C8: every instruction in the bytecode of slot i was decoded from bytes below the
\* boundary B of the slot (the end of the buffer when no later slot is non-null).
C8_NoInstructionAcrossBoundary ==
    (pc \in {"bytecode", "return"} /\ bytecode # << >>)
    => offset <= (IF BoundaryOf(idx + 1) = None THEN Len(data) ELSE BoundaryOf(idx + 1)[1])

\* C9: when the record count read from the first 4 bytes is negative, parse fails
\* instead of returning a result, and reads no pointer and decodes no record.
C9_NegativeCountFails ==
    (pc # "start" /\ count < 0)
    => pc # "done" /\ result = None /\ scripts = << >>

\* the bytecode the loop of lines 255-265 collects from offset o with boundary b
RECURSIVE RefStream(_, _)
RefStream(o, b) ==
    IF b # None /\ o >= b[1] THEN << >>
    ELSE LET r == ParseInstruction(data, o)
         IN  IF r.kind # "instr" THEN << >>
             ELSE IF r.val.opcode = END THEN <<r.val>>
             ELSE <<r.val>> \o RefStream(r.off, b)

\* the record at pointer p with boundary b, decoded on its own
RefRecord(p, b) ==
    EffectScript(ParseHeader(data, p).val, RefStream(ParseHeader(data, p).off, b))

Unhandled(o) ==
    \/ o >= 224 /\ o <= 249
    \/ o \in {162, 163, 170, 186, 187, 189, 191}
    \/ o >= 173 /\ o <= 184

\* C12: _parse_instruction returns None only when no byte remains at the cursor, and
\* then leaves the cursor where it was; an available byte of no family and of no
\* handled opcode is signalled as a failure, not as the None of end-of-stream.
C12_NoneOnlyAtEndOfStream ==
    pc = "decoded"
    => /\ instr.kind = "none" => opbyte = -1 /\ offset = start
       /\ (opbyte >= 0 /\ Unhandled(opbyte)) => instr.kind = "raise"

\* the reader offset right after the pointer table of count pointers
AfterTable == 4 + 4 * (IF count < 0 THEN 0 ELSE count)

\* C13: decoding the record of a non-null slot leaves the table-scan cursor where it
\* was: whenever the script loop is between records, and when parse has returned,
\* the reader offset is 4 + 4 * N, and while a record is decoded the saved offset
\* is that same position.
C13_CursorRestored ==
    /\ pc \in {"scripts", "done"} => offset = AfterTable
    /\ pc \in {"header", "bytecode", "return"} => old_offset = AfterTable

\* two records decoded, each with bytecode, and the cursor back after the table
C13_Witness ==
    /\ pc = "done" /\ count = 2
    /\ scripts[1].target # None /\ scripts[2].target # None
    /\ scripts[1].target[1].bytecode # << >>
    /\ scripts[2].target[1].bytecode # << >>
    /\ scripts[1].ptr_value # scripts[2].ptr_value
    /\ offset = 12

\* the bytes a variable-length field at offset o takes from the buffer
VarAdvance(o) ==
    IF o >= Len(data) THEN 0
    ELSE IF data[o + 1] >= 128 /\ o + 1 < Len(data) THEN 2
    ELSE 1

\* Reads are listed by width: w > 0 is a fixed-width read of w bytes, w < 0 a skip
\* of -w bytes, 0 a variable-length field.  FailAt(o, reads) is the offset at which
\* the first fixed-width read with fewer than w bytes left is attempted when the
\* reads are made one after the other from offset o, and -1 when there is none.
RECURSIVE FailAt(_, _)
FailAt(o, reads) ==
    IF reads = << >> THEN -1
    ELSE IF Head(reads) < 0 THEN FailAt(o - Head(reads), Tail(reads))
    ELSE IF Head(reads) = 0 THEN FailAt(o + VarAdvance(o), Tail(reads))
    ELSE IF o + Head(reads) > Len(data) THEN o
    ELSE FailAt(o + Head(reads), Tail(reads))

\* the header's reads with the velocity as one 12-byte vec3f read
HeaderReadsVec == <<2, 2, 2, 2, 4, 4, 4, 12, -12, 4>>

\* the header's reads with the velocity as the three float reads vec3f makes
HeaderReadsFloats == <<2, 2, 2, 2, 4, 4, 4, 4, 4, 4, -12, 4>>

Repeat(w, n) == [k \in 1..n |-> w]

\* the operand reads of opcode byte o
OperandReads(o) ==
    IF o < 128 THEN Repeat(1, Bit(o, 32) + Bit(o, 64))
    ELSE IF o < 160 THEN Repeat(4, Bit(o, 1) + Bit(o, 2) + Bit(o, 4))
    ELSE IF o >= 192 /\ o < 224 THEN <<0>> \o Repeat(1, Channels(o))
    ELSE CASE o \in {164, 165, 185} -> <<2>>
           [] o = 160 -> <<0, 4>>
           [] o = 166 -> <<2, 2>>
           [] o \in {161, 167, 250} -> <<1>>
           [] o \in {168, 190} -> <<4, 4, 4>>
           [] o \in {169, 171} -> <<4>>
           [] o = 188 -> <<1, 1>>
           [] o = 172 -> <<0, 4, 4>>
           [] OTHER -> << >>

\* where the failed parse was: in the count, the pointer array, a record header
\* or an instruction
FailedIn ==
    IF instr.kind = "raise" THEN "instruction"
    ELSE IF Len(data) < 4 THEN "count"
    ELSE IF Len(scripts) < count THEN "pointers"
    ELSE "header"

\* the offset at which the short read of a failed parse was attempted, the header
\* being read as `reads`
ShortReadAt(reads) ==
    CASE FailedIn = "count" -> 0
      [] FailedIn = "pointers" -> 4 + 4 * Len(scripts)
      [] FailedIn = "header" -> FailAt(scripts[idx + 1].ptr_value, reads)
      [] FailedIn = "instruction" -> FailAt(start + 1, OperandReads(opbyte))

\* a parse that returned made no short read: the count, the pointers and the
\* header of every non-null slot were in the buffer
NoShortRead ==
    /\ Len(data) >= AfterTable
    /\ \A k \in 1..count : PointerAt(k) # 0 => PointerAt(k) + HeaderLen <= Len(data)

\* failures are not swallowed and a failed parse returns nothing
Propagates(reads) ==
    /\ pc = "error" => result = None
    /\ pc = "done" => NoShortRead
    /\ (opbyte >= 0 /\ FailAt(start + 1, OperandReads(opbyte)) # -1) => pc = "error"
    /\ (pc = "error" /\ ~(FailedIn = "instruction" /\ instr.val = "TypeError"))
          => offset = ShortReadAt(reads)

\* C11 as stated: a u8, u16, u32, s32, float or vec3f read attempted with fewer
\* bytes left than its width fails with the offset where the read began, the
\* failure is not swallowed, and parse returns no result.
C11_ShortReadFailsInPlace == Propagates(HeaderReadsVec)

\* C11 as amended: the same, except that a vec3f read fails at the first of its
\* three float reads that is short, the offset having moved past the floats read
\* in full.
C11_ShortReadFails == Propagates(HeaderReadsFloats)

\* a parse that failed inside the velocity of a record header, after one float of it
C11_Witness ==
    /\ pc = "error" /\ FailedIn = "header"
    /\ offset = scripts[idx + 1].ptr_value + 24
    /\ Len(data) < offset + 4
    /\ result = None

\* the iterations the instruction loop of the record just decoded has made: one for
\* every instruction appended, and one more when the loop ended at the boundary
\* test or on a None from the decoder
Iterations == Len(bytecode) + (IF stop \in {"boundary", "none"} THEN 1 ELSE 0)

\* the bytes between the end of the header of the record being decoded and the end
\* of the buffer
BytesAfterHeader == Len(data) - (scripts[idx + 1].ptr_value + HeaderLen)

\* the pointer loop runs at most N times
PointerLoopBound == Len(scripts) <= (IF count < 0 THEN 0 ELSE count) /\ idx <= Len(scripts)

\* C14 as stated, its bounds: a record decode ends after at most as many iterations
\* of the instruction loop as there are bytes between the end of its header and the
\* end of the buffer, and the pointer loop runs at most N times.
C14_IterationsWithinBytes ==
    /\ pc = "return" => Iterations <= BytesAfterHeader
    /\ PointerLoopBound

\* C14 as amended: every iteration of the instruction loop ends the loop or moves
\* the cursor by at least one byte, the cursor never passing the end of the buffer;
\* a record decode ends after at most one more iteration than there are bytes
\* between the end of its header and the end of the buffer; the pointer loop runs
\* at most N times, every pass reading one more slot.
C14_Terminates ==
    /\ [][(pc = "bytecode" /\ pc' = "bytecode") => offset' > offset]_vars
    /\ [][(pc = "pointers" /\ pc' = "pointers") => Len(scripts') = Len(scripts) + 1]_vars
    /\ [](pc \in {"bytecode", "return"}
             => /\ offset <= Len(data)
                /\ Len(bytecode) <= BytesAfterHeader)
    /\ [](pc = "return" => Iterations <= BytesAfterHeader + 1)
    /\ []PointerLoopBound

\* a record whose instructions run to the last byte of the buffer, decoded in as
\* many iterations as there were bytes plus one
C14_Witness ==
    /\ pc = "return"
    /\ stop = "none"
    /\ Len(bytecode) >= 1
    /\ Iterations = BytesAfterHeader + 1

====
